---- MODULE Spec2Model ----
(***************************************************************************)
(* Model of the two transformation cores of project-MathPilot:             *)
(*   - STTProcessor.transcribe  (backend/app/services/audio)               *)
(*   - OCRProcessor.process_slide with _clean_hallucinations and           *)
(*     _extract_latex          (backend/app/services/vision)               *)
(*                                                                         *)
(* A Python str is a sequence of atoms.  An atom is a TLA+ string standing *)
(* for a fixed run of characters; Width gives its number of characters.    *)
(* A float number of seconds obtained from integer milliseconds is kept    *)
(* exactly, as whole seconds plus the remaining thousandths.               *)
(***************************************************************************)
EXTENDS Integers, Sequences, FiniteSets, TLC

VARIABLES
    RIVA_AVAILABLE,     \* module flag set by the guarded import
    asr_service,        \* self.asr_service: "None" or "svc"
    pc,                 \* position of transcribe
    audio_read,         \* the audio file has been opened and read
    upstream_called,    \* offline_recognize has been called
    response,           \* response.results
    i,                  \* index of the result the for loop is at
    full_text,          \* local full_text
    segments,           \* local segments
    fallback_taken,     \* the body of the post-loop `if` has run
    ret,                \* the TranscriptResult returned, or None
    ocr_pc,             \* position of process_slide
    raw_text,           \* response of analyze_image
    cleaned_response,   \* local cleaned_response
    block_matches,      \* local block_matches of _extract_latex
    inline_matches,     \* local inline_matches of _extract_latex
    ocr_ret             \* the OCRResult returned, or None

sttVars == <<RIVA_AVAILABLE, asr_service, pc, audio_read, upstream_called,
             response, i, full_text, segments, fallback_taken, ret>>
ocrVars == <<ocr_pc, raw_text, cleaned_response, block_matches,
             inline_matches, ocr_ret>>
vars == <<sttVars, ocrVars>>

None == "None"

(***************************************************************************)
(* Bounds of the inputs.                                                   *)
(***************************************************************************)
MaxResults == 2
MaxWords == 2
MaxText == 5
MaxMarkdown == 6

(***************************************************************************)
(* Strings.                                                                *)
(***************************************************************************)
IsSpace(c) == c \in {" ", "\t", "\n", "\r"}

RECURSIVE LStrip(_)
LStrip(s) ==
    IF s = <<>> THEN <<>>
    ELSE IF IsSpace(Head(s)) THEN LStrip(Tail(s)) ELSE s

RECURSIVE RStrip(_)
RStrip(s) ==
    IF s = <<>> THEN <<>>
    ELSE IF IsSpace(s[Len(s)]) THEN RStrip(SubSeq(s, 1, Len(s) - 1)) ELSE s

\* str.strip()
Strip(s) == RStrip(LStrip(s))

(***************************************************************************)
(* Seconds.                                                                *)
(***************************************************************************)
\* x / 1000.0 for an integer number of milliseconds x >= 0
ToSec(ms) == [whole |-> ms \div 1000, frac |-> ms % 1000]

SecLeq(a, b) == a.whole < b.whole \/ (a.whole = b.whole /\ a.frac <= b.frac)

ZeroSec == [whole |-> 0, frac |-> 0]

SentinelEnd == 999999

\* the literal 999999.0
UnboundedSec == [whole |-> SentinelEnd, frac |-> 0]

(***************************************************************************)
(* STTProcessor                                                            *)
(***************************************************************************)
TranscriptSegment(start, end, text) == [start |-> start, end |-> end, text |-> text]

TranscriptResult(ft, segs, lang, dur) ==
    [full_text |-> ft, segments |-> segs, language |-> lang, duration_sec |-> dur]

\* __init__: asr_service is None exactly when the client library is missing
InitAsrService(available) == IF available THEN "svc" ELSE None

\* the guard of the first `if` of transcribe
Unavailable == ~RIVA_AVAILABLE \/ asr_service = None

UnavailableResultEmptyText == TranscriptResult(<<>>, <<>>, "ko-KR", ZeroSec)

UnavailableResult ==
    TranscriptResult(<<"[STT unavailable - Riva client not installed]">>,
                     <<>>, "ko-KR", ZeroSec)

EmptyResultWithSegment ==
    TranscriptResult(<<>>, <<TranscriptSegment(ZeroSec, UnboundedSec, <<>>)>>,
                     "ko-KR", UnboundedSec)

\* the result returned when response.results is empty
EmptyResult == TranscriptResult(<<>>, <<>>, "ko-KR", ZeroSec)

\* alt = result.alternatives[0]
SelectedAlternative(result) == result[1]

AccumulateNoSeparator(ft, text_chunk) == ft \o text_chunk

\* full_text += text_chunk + " "
Accumulate(ft, text_chunk) == ft \o text_chunk \o <<" ">>

SegmentFromWordsSwapped(alt) ==
    TranscriptSegment(ToSec(alt.words[Len(alt.words)].end_time),
                      ToSec(alt.words[1].start_time),
                      Strip(alt.transcript))

\* the segment of an alternative that has words
SegmentFromWords(alt) ==
    TranscriptSegment(ToSec(alt.words[1].start_time),
                      ToSec(alt.words[Len(alt.words)].end_time),
                      Strip(alt.transcript))

SentinelSegmentUntrimmed(text_chunk) ==
    TranscriptSegment(ZeroSec, UnboundedSec, text_chunk)

\* the segment of an alternative that has no words
SentinelSegment(text_chunk) ==
    TranscriptSegment(ZeroSec, UnboundedSec, Strip(text_chunk))

AppendSentinelIfText(segs, text_chunk) ==
    IF Strip(text_chunk) = <<>> THEN segs
    ELSE Append(segs, SentinelSegment(text_chunk))

\* the else branch of `if alt.words`
AppendSentinel(segs, text_chunk) == Append(segs, SentinelSegment(text_chunk))

DurationOfFirst(segs) == IF segs # <<>> THEN segs[1].end ELSE ZeroSec

\* duration = segments[-1].end if segments else 0.0
Duration(segs) == IF segs # <<>> THEN segs[Len(segs)].end ELSE ZeroSec

(***************************************************************************)
(* Inputs of transcribe: the responses of the recognition service.         *)
(***************************************************************************)
Transcripts == {<<>>, <<" ", "a">>, <<"b", " ">>}

Word(s, e) == [start_time |-> s, end_time |-> e]

WordSet == {Word(500, 1200), Word(1500, 2300)}

WordLists == UNION {[1..n -> WordSet] : n \in 0..MaxWords}

Alternatives == [transcript : Transcripts, words : WordLists]

\* a lower-ranked alternative, which transcribe never looks at
OtherAlternative == [transcript |-> <<"z">>, words |-> <<Word(9000, 9500)>>]

Results ==
    {<<>>} \cup {<<a>> : a \in Alternatives}
           \cup {<<a, OtherAlternative>> : a \in Alternatives}

Responses == UNION {[1..n -> Results] : n \in 0..MaxResults}

InitSTT ==
    /\ RIVA_AVAILABLE \in BOOLEAN
    /\ asr_service = InitAsrService(RIVA_AVAILABLE)
    /\ pc = "start"
    /\ audio_read = FALSE
    /\ upstream_called = FALSE
    /\ response = <<>>
    /\ i = 1
    /\ full_text = <<>>
    /\ segments = <<>>
    /\ fallback_taken = FALSE
    /\ ret = None

\* lines 62-69
ReturnUnavailable ==
    /\ pc = "start"
    /\ Unavailable
    /\ ret' = UnavailableResult
    /\ pc' = "done"
    /\ UNCHANGED <<RIVA_AVAILABLE, asr_service, audio_read, upstream_called,
                   response, i, full_text, segments, fallback_taken>>
    /\ UNCHANGED ocrVars

\* lines 71-75
ReadAudio ==
    /\ pc = "start"
    /\ ~Unavailable
    /\ audio_read' = TRUE
    /\ pc' = "read"
    /\ UNCHANGED <<RIVA_AVAILABLE, asr_service, upstream_called, response, i,
                   full_text, segments, fallback_taken, ret>>
    /\ UNCHANGED ocrVars

\* line 74: open() raises
ReadAudioFails ==
    /\ pc = "start"
    /\ ~Unavailable
    /\ pc' = "raised"
    /\ UNCHANGED <<RIVA_AVAILABLE, asr_service, audio_read, upstream_called,
                   response, i, full_text, segments, fallback_taken, ret>>
    /\ UNCHANGED ocrVars

\* lines 81-93: the call returns a response; the locals are initialised
OfflineRecognize ==
    /\ pc = "read"
    /\ upstream_called' = TRUE
    /\ \E r \in Responses : response' = r
    /\ full_text' = <<>>
    /\ segments' = <<>>
    /\ i' = 1
    /\ pc' = "parse"
    /\ UNCHANGED <<RIVA_AVAILABLE, asr_service, audio_read, fallback_taken, ret>>
    /\ UNCHANGED ocrVars

\* lines 87-89: the call raises and the exception is re-raised
OfflineRecognizeFails ==
    /\ pc = "read"
    /\ upstream_called' = TRUE
    /\ pc' = "raised"
    /\ UNCHANGED <<RIVA_AVAILABLE, asr_service, audio_read, response, i,
                   full_text, segments, fallback_taken, ret>>
    /\ UNCHANGED ocrVars

\* lines 95-96
ReturnEmpty ==
    /\ pc = "parse"
    /\ response = <<>>
    /\ ret' = EmptyResult
    /\ pc' = "done"
    /\ UNCHANGED <<RIVA_AVAILABLE, asr_service, audio_read, upstream_called,
                   response, i, full_text, segments, fallback_taken>>
    /\ UNCHANGED ocrVars

\* line 99: a result without alternatives is skipped
LoopSkip ==
    /\ pc = "parse"
    /\ i <= Len(response)
    /\ response[i] = <<>>
    /\ i' = i + 1
    /\ UNCHANGED <<RIVA_AVAILABLE, asr_service, pc, audio_read, upstream_called,
                   response, full_text, segments, fallback_taken, ret>>
    /\ UNCHANGED ocrVars

\* lines 101-109: a result whose first alternative has words
LoopWords ==
    /\ pc = "parse"
    /\ i <= Len(response)
    /\ response[i] # <<>>
    /\ LET alt == SelectedAlternative(response[i]) IN
        /\ alt.words # <<>>
        /\ full_text' = Accumulate(full_text, alt.transcript)
        /\ segments' = Append(segments, SegmentFromWords(alt))
    /\ i' = i + 1
    /\ UNCHANGED <<RIVA_AVAILABLE, asr_service, pc, audio_read, upstream_called,
                   response, fallback_taken, ret>>
    /\ UNCHANGED ocrVars

\* lines 101-103, 110-114: a result whose first alternative has no words
LoopNoWords ==
    /\ pc = "parse"
    /\ i <= Len(response)
    /\ response[i] # <<>>
    /\ LET alt == SelectedAlternative(response[i]) IN
        /\ alt.words = <<>>
        /\ full_text' = Accumulate(full_text, alt.transcript)
        /\ segments' = AppendSentinel(segments, alt.transcript)
    /\ i' = i + 1
    /\ UNCHANGED <<RIVA_AVAILABLE, asr_service, pc, audio_read, upstream_called,
                   response, fallback_taken, ret>>
    /\ UNCHANGED ocrVars

\* lines 117-128: after the loop
Finish ==
    /\ pc = "parse"
    /\ response # <<>>
    /\ i > Len(response)
    /\ LET fallback == segments = <<>> /\ Strip(full_text) # <<>>
           segs == IF fallback
                   THEN Append(segments,
                               TranscriptSegment(ZeroSec, UnboundedSec, Strip(full_text)))
                   ELSE segments
       IN /\ fallback_taken' = fallback
          /\ segments' = segs
          /\ ret' = TranscriptResult(Strip(full_text), segs, "ko-KR", Duration(segs))
    /\ pc' = "done"
    /\ UNCHANGED <<RIVA_AVAILABLE, asr_service, audio_read, upstream_called,
                   response, i, full_text>>
    /\ UNCHANGED ocrVars

NextSTT ==
    \/ ReturnUnavailable
    \/ ReadAudio
    \/ ReadAudioFails
    \/ OfflineRecognize
    \/ OfflineRecognizeFails
    \/ ReturnEmpty
    \/ LoopSkip
    \/ LoopWords
    \/ LoopNoWords
    \/ Finish

(***************************************************************************)
(* OCRProcessor                                                            *)
(***************************************************************************)
\* the keyword r'\begin{array}'
Marker == "\\begin{array}"

NL == "\n"

\* atoms that stand for runs of ordinary characters
Filler13 == "<13 letters>"
Filler100 == "<100 letters>"
Filler487 == "<487 letters>"

\* number of characters of an atom
Width(a) ==
    CASE a = Marker -> 13
      [] a = Filler13 -> 13
      [] a = Filler100 -> 100
      [] a = Filler487 -> 487
      [] OTHER -> 1

RepeatThreshold == 3
LengthThreshold == 500

\* text.split('\n')
RECURSIVE SplitLines(_)
SplitLines(text) ==
    IF \A k \in DOMAIN text : text[k] # NL THEN <<text>>
    ELSE LET k == CHOOSE k \in DOMAIN text :
                      /\ text[k] = NL
                      /\ \A m \in 1..(k - 1) : text[m] # NL
         IN <<SubSeq(text, 1, k - 1)>> \o SplitLines(SubSeq(text, k + 1, Len(text)))

RECURSIVE JoinWithSpace(_)
JoinWithSpace(lines) ==
    IF lines = <<>> THEN <<>>
    ELSE IF Len(lines) = 1 THEN lines[1]
    ELSE lines[1] \o <<" ">> \o JoinWithSpace(Tail(lines))

\* '\n'.join(cleaned_lines)
RECURSIVE JoinLines(_)
JoinLines(lines) ==
    IF lines = <<>> THEN <<>>
    ELSE IF Len(lines) = 1 THEN lines[1]
    ELSE lines[1] \o <<NL>> \o JoinLines(Tail(lines))

\* line.count(r'\begin{array}'): the marker cannot overlap itself
CountMarker(line) == Cardinality({k \in DOMAIN line : line[k] = Marker})

\* len(line)
RECURSIVE LineLen(_)
LineLen(line) == IF line = <<>> THEN 0 ELSE Width(Head(line)) + LineLen(Tail(line))

\* r'\begin{array}' in line
ContainsMarker(line) == \E k \in DOMAIN line : line[k] = Marker

SkipsLineAtThreshold(line) ==
    \/ CountMarker(line) >= RepeatThreshold
    \/ LineLen(line) > LengthThreshold /\ ContainsMarker(line)

\* the two `continue` conditions of the loop
SkipsLine(line) ==
    \/ CountMarker(line) > RepeatThreshold
    \/ LineLen(line) > LengthThreshold /\ ContainsMarker(line)

\* the for loop: cleaned_lines of the lines from index k on
RECURSIVE CleanedLines(_, _)
CleanedLines(lines, k) ==
    IF k > Len(lines) THEN <<>>
    ELSE IF SkipsLine(lines[k]) THEN CleanedLines(lines, k + 1)
    ELSE <<lines[k]>> \o CleanedLines(lines, k + 1)

CleanHallucinations(text) == JoinLines(CleanedLines(SplitLines(text), 1))

\* the pattern \$\$ at index k
DoubleDollarAt(s, k) == k >= 1 /\ k + 1 <= Len(s) /\ s[k] = "$" /\ s[k + 1] = "$"

\* least index >= from at which \$\$ matches, 0 if there is none
FirstDoubleDollar(s, from) ==
    IF \E k \in from..Len(s) : DoubleDollarAt(s, k)
    THEN CHOOSE k \in from..Len(s) :
             DoubleDollarAt(s, k) /\ \A m \in from..(k - 1) : ~DoubleDollarAt(s, m)
    ELSE 0

\* re.findall(r"\$\$(.*?)\$\$", s, re.DOTALL), scanning from index pos
RECURSIVE BlockMatches(_, _)
BlockMatches(s, pos) ==
    LET open == FirstDoubleDollar(s, pos) IN
    IF open = 0 THEN <<>>
    ELSE LET close == FirstDoubleDollar(s, open + 2) IN
         IF close = 0 THEN <<>>
         ELSE <<SubSeq(s, open + 2, close - 1)>> \o BlockMatches(s, close + 2)

AnyDollarAt(s, k) == k \in DOMAIN s /\ s[k] = "$"

\* (?<!\$)\$(?!\$) at index k
SingleDollarAt(s, k) ==
    /\ k \in DOMAIN s
    /\ s[k] = "$"
    /\ (k = 1 \/ s[k - 1] # "$")
    /\ (k = Len(s) \/ s[k + 1] # "$")

\* the closing delimiter .*? stops at for the opening one at index open
\* (. matches no newline), 0 if there is none
InlineClose(s, open) ==
    LET ok(j) == /\ SingleDollarAt(s, j)
                 /\ \A m \in (open + 1)..(j - 1) : s[m] # NL
    IN IF \E j \in (open + 1)..Len(s) : ok(j)
       THEN CHOOSE j \in (open + 1)..Len(s) :
                ok(j) /\ \A m \in (open + 1)..(j - 1) : ~ok(m)
       ELSE 0

\* re.findall(r"(?<!\$)\$(?!\$)(.*?)(?<!\$)\$(?!\$)", s), scanning from index pos
RECURSIVE InlineMatches(_, _)
InlineMatches(s, pos) ==
    LET starts(k) == SingleDollarAt(s, k) /\ InlineClose(s, k) # 0 IN
    IF \E k \in pos..Len(s) : starts(k)
    THEN LET open == CHOOSE k \in pos..Len(s) :
                         starts(k) /\ \A m \in pos..(k - 1) : ~starts(m)
             close == InlineClose(s, open)
         IN <<SubSeq(s, open + 1, close - 1)>> \o InlineMatches(s, close + 1)
    ELSE <<>>

OCRResult(num, raw, md, latex) ==
    [slide_number |-> num, raw_text |-> raw, structured_markdown |-> md,
     latex_expressions |-> latex]

(***************************************************************************)
(* Inputs of process_slide: the answers of the vision model.               *)
(***************************************************************************)
LineAtoms == {Marker, Filler13, Filler100, Filler487, "a", NL}

MarkdownAtoms == {"$", "z", NL}

SeqsUpTo(S, n) == UNION {[1..m -> S] : m \in 0..n}

\* "Title\n$$ x+y $$\ninline $z$ text"
ExampleMarkdown ==
    <<"T", "i", "t", "l", "e", NL, "$", "$", " ", "x", "+", "y", " ", "$", "$", NL,
      "i", "n", "l", "i", "n", "e", " ", "$", "z", "$", " ", "t", "e", "x", "t">>

RawTexts ==
    SeqsUpTo(LineAtoms, MaxText) \cup SeqsUpTo(MarkdownAtoms, MaxMarkdown)
        \cup {ExampleMarkdown}

InitOCR ==
    /\ ocr_pc = "start"
    /\ raw_text = <<>>
    /\ cleaned_response = <<>>
    /\ block_matches = <<>>
    /\ inline_matches = <<>>
    /\ ocr_ret = None

\* lines 74-78: the vision model answers
AnalyzeImage ==
    /\ ocr_pc = "start"
    /\ \E t \in RawTexts : raw_text' = t
    /\ ocr_pc' = "analyzed"
    /\ UNCHANGED <<cleaned_response, block_matches, inline_matches, ocr_ret>>
    /\ UNCHANGED sttVars

\* line 81
CleanResponse ==
    /\ ocr_pc = "analyzed"
    /\ cleaned_response' = CleanHallucinations(raw_text)
    /\ ocr_pc' = "cleaned"
    /\ UNCHANGED <<raw_text, block_matches, inline_matches, ocr_ret>>
    /\ UNCHANGED sttVars

\* lines 84-91: _extract_latex and the return
ExtractLatex ==
    /\ ocr_pc = "cleaned"
    /\ LET blocks == BlockMatches(cleaned_response, 1)
           inlines == InlineMatches(cleaned_response, 1)
       IN /\ block_matches' = blocks
          /\ inline_matches' = inlines
          /\ ocr_ret' = OCRResult(1, raw_text, cleaned_response, blocks \o inlines)
    /\ ocr_pc' = "done"
    /\ UNCHANGED <<raw_text, cleaned_response>>
    /\ UNCHANGED sttVars

NextOCR ==
    \/ AnalyzeImage
    \/ CleanResponse
    \/ ExtractLatex

(***************************************************************************)
(* Specifications                                                          *)
(***************************************************************************)
\* both processors constructed, no call in progress
Init == InitSTT /\ InitOCR

\* calls of transcribe only
SpecSTT == Init /\ [][NextSTT]_vars

\* calls of process_slide only
SpecOCR == Init /\ [][NextOCR]_vars

(***************************************************************************)
(* Properties of transcribe                                                *)
(***************************************************************************)
\* transcribe has returned the result parsed from a response
Parsed == pc = "done" /\ upstream_called

\* the first alternatives of the results that have alternatives, in order
RECURSIVE SelectedOf(_)
SelectedOf(resp) ==
    IF resp = <<>> THEN <<>>
    ELSE (IF Head(resp) = <<>> THEN <<>> ELSE <<Head(resp)[1]>>) \o SelectedOf(Tail(resp))

AllHaveWords(resp) == \A k \in DOMAIN SelectedOf(resp) : SelectedOf(resp)[k].words # <<>>

NoneHasWords(resp) == \A k \in DOMAIN SelectedOf(resp) : SelectedOf(resp)[k].words = <<>>

FirstStart(alt) == alt.words[1].start_time

LastEnd(alt) == alt.words[Len(alt.words)].end_time

\* seconds value t is exactly ms / 1000
IsMsAsSec(t, ms) == t.frac \in 0..999 /\ t.whole * 1000 + t.frac = ms

SegmentsOrdered(segs) ==
    /\ \A k \in DOMAIN segs : SecLeq(segs[k].start, segs[k].end)
    /\ \A k \in DOMAIN segs : k > 1 => SecLeq(segs[k - 1].start, segs[k].start)

\* the timestamps of the selected alternatives are in chronological order
Chronological(resp) ==
    LET sel == SelectedOf(resp) IN
    /\ \A k \in DOMAIN sel : FirstStart(sel[k]) <= LastEnd(sel[k])
    /\ \A k \in DOMAIN sel : k > 1 => FirstStart(sel[k - 1]) <= FirstStart(sel[k])

\* C1 as stated: whenever every selected alternative has word timestamps, the
\* segments returned are ordered by non-decreasing start and have start <= end.
C1_OrderedForEveryInput ==
    (Parsed /\ AllHaveWords(response)) => SegmentsOrdered(ret.segments)

\* C1 amended: when every selected alternative has word timestamps, segment k
\* is built from the k-th selected alternative with start = first word's
\* start_time / 1000 and end = last word's end_time / 1000; the segments are
\* ordered by start and have start <= end when the input timestamps are
\* chronological.
C1_OrderedForChronologicalInput ==
    (Parsed /\ AllHaveWords(response)) =>
        LET sel == SelectedOf(response) IN
        /\ Len(ret.segments) = Len(sel)
        /\ \A k \in DOMAIN sel :
              /\ IsMsAsSec(ret.segments[k].start, FirstStart(sel[k]))
              /\ IsMsAsSec(ret.segments[k].end, LastEnd(sel[k]))
        /\ Chronological(response) => SegmentsOrdered(ret.segments)

C1_Witness ==
    /\ Parsed
    /\ AllHaveWords(response)
    /\ Chronological(response)
    /\ Len(ret.segments) = 2
    /\ ret.segments[1].start # ret.segments[2].start
    /\ \E k \in DOMAIN SelectedOf(response) : Len(SelectedOf(response)[k].words) = 2

\* C2 as stated: when no result has word timestamps and the text is not
\* empty, exactly one sentinel segment holding the whole trimmed text is
\* returned, however many results there are.
C2_ExactlyOneSentinel ==
    (Parsed /\ NoneHasWords(response) /\ ret.full_text # <<>>) =>
        ret.segments = <<TranscriptSegment(ZeroSec, UnboundedSec, ret.full_text)>>

\* C2 amended: when no result has word timestamps and the text is not empty,
\* one sentinel segment (start 0, end 999999) is returned per result that has
\* an alternative, holding that result's trimmed transcript; with exactly one
\* such result the single segment holds the entire trimmed full text.
C2_OneSentinelPerResult ==
    (Parsed /\ NoneHasWords(response) /\ ret.full_text # <<>>) =>
        LET sel == SelectedOf(response) IN
        /\ Len(ret.segments) = Len(sel)
        /\ \A k \in DOMAIN sel :
              ret.segments[k] =
                  TranscriptSegment(ZeroSec, UnboundedSec, Strip(sel[k].transcript))
        /\ Len(sel) = 1 => ret.segments[1].text = ret.full_text

C2_Witness ==
    /\ Parsed
    /\ NoneHasWords(response)
    /\ ret.full_text # <<>>
    /\ Len(ret.segments) = 2
    /\ ret.segments[1].text # <<>>
    /\ ret.segments[2].text # <<>>

\* ' '.join(chunks)
RECURSIVE SpaceJoined(_)
SpaceJoined(chunks) ==
    IF chunks = <<>> THEN <<>>
    ELSE IF Len(chunks) = 1 THEN chunks[1]
    ELSE chunks[1] \o <<" ">> \o SpaceJoined(Tail(chunks))

TranscriptsOf(alts) == [k \in DOMAIN alts |-> alts[k].transcript]

\* C3: full_text is the trimmed single-space join of the transcripts of the
\* first alternatives of the results that have alternatives, in input order.
C3_FullTextIsTrimmedJoin ==
    Parsed => ret.full_text = Strip(SpaceJoined(TranscriptsOf(SelectedOf(response))))

C3_Witness ==
    /\ Parsed
    /\ ret.full_text = <<"a", " ", "b">>
    /\ \E k \in DOMAIN response : Len(response[k]) = 2

\* C4: on every path the duration returned is the end of the last segment,
\* or 0 when there are no segments.
C4_DurationIsLastEnd ==
    pc = "done" =>
        IF ret.segments = <<>> THEN ret.duration_sec = ZeroSec
        ELSE ret.duration_sec = ret.segments[Len(ret.segments)].end

C4_Witness ==
    /\ pc = "done"
    /\ Len(ret.segments) = 2
    /\ ret.segments[1].end # ret.segments[2].end
    /\ ret.segments[2].end # UnboundedSec

\* C5: once a response without results has been received, the next step of
\* transcribe returns the empty TranscriptResult; it does not raise.
C5_EmptyResponseReturnsEmpty ==
    [][(pc = "parse" /\ response = <<>>) =>
          /\ pc' = "done"
          /\ ret'.full_text = <<>>
          /\ ret'.segments = <<>>
          /\ ret'.duration_sec = ZeroSec]_vars

C5_Witness == Parsed /\ response = <<>> /\ ret.segments = <<>>

\* C6: when the speech capability is unavailable, transcribe neither reads the
\* audio file nor calls the recognition service nor raises, and what it
\* returns has a non-empty text, no segments and duration 0.
C6_UnavailableSentinel ==
    Unavailable =>
        /\ ~audio_read
        /\ ~upstream_called
        /\ pc # "raised"
        /\ pc = "done" =>
              /\ ret.full_text # <<>>
              /\ ret.segments = <<>>
              /\ ret.duration_sec = ZeroSec

C6_Witness == Unavailable /\ pc = "done" /\ ret.language = "ko-KR"

\* C10: for a non-empty response the number of segments is the number of
\* results that have an alternative, each giving one segment (timestamped if
\* its first alternative has words, else from 0 to 999999, also for an empty
\* transcript); segments is empty only when the accumulated text is empty and
\* the post-loop fallback never runs.
C10_OneSegmentPerResult ==
    /\ ~fallback_taken
    /\ (Parsed /\ response # <<>>) =>
          LET sel == SelectedOf(response) IN
          /\ Len(ret.segments) = Len(sel)
          /\ \A k \in DOMAIN sel :
                IF sel[k].words # <<>>
                THEN /\ IsMsAsSec(ret.segments[k].start, FirstStart(sel[k]))
                     /\ IsMsAsSec(ret.segments[k].end, LastEnd(sel[k]))
                ELSE /\ ret.segments[k].start = ZeroSec
                     /\ ret.segments[k].end = [whole |-> 999999, frac |-> 0]
          /\ ret.segments = <<>> => full_text = <<>>

C10_Witness ==
    /\ Parsed
    /\ Len(response) = 2
    /\ Len(ret.segments) = 2
    /\ ret.segments[1] = TranscriptSegment(ZeroSec, UnboundedSec, <<>>)
    /\ ret.segments[2].end # UnboundedSec

(***************************************************************************)
(* Properties of process_slide                                             *)
(***************************************************************************)
Cleaned == ocr_pc \in {"cleaned", "done"}

\* neither drop rule of the filter holds for the line
NeitherRuleHolds(line) ==
    /\ ~(CountMarker(line) > 3)
    /\ ~(LineLen(line) > 500 /\ CountMarker(line) >= 1)

C8_FilterIdempotent ==
    Cleaned => CleanHallucinations(cleaned_response) = cleaned_response

C8_Witness ==
    /\ Cleaned
    /\ cleaned_response # raw_text
    /\ cleaned_response # <<>>
    /\ \E k \in DOMAIN cleaned_response : cleaned_response[k] = Marker

\* C9 as stated: for the example markdown the block matches are [" x+y "],
\* the inline matches are [" z "] and the result is [" x+y ", " z "].
C9_ExampleAsStated ==
    (ocr_pc = "done" /\ raw_text = ExampleMarkdown) =>
        /\ block_matches = << <<" ", "x", "+", "y", " ">> >>
        /\ inline_matches = << <<" ", "z", " ">> >>
        /\ ocr_ret.latex_expressions =
               << <<" ", "x", "+", "y", " ">>, <<" ", "z", " ">> >>

\* C9 amended: for the example markdown the block matches are [" x+y "], the
\* inline matches are ["z"] and the result is [" x+y ", "z"]; the result is
\* always the block matches followed by the inline matches.
C9_ExampleExtraction ==
    /\ ocr_pc = "done" => ocr_ret.latex_expressions = block_matches \o inline_matches
    /\ (ocr_pc = "done" /\ raw_text = ExampleMarkdown) =>
          /\ block_matches = << <<" ", "x", "+", "y", " ">> >>
          /\ inline_matches = << <<"z">> >>
          /\ ocr_ret.latex_expressions = << <<" ", "x", "+", "y", " ">>, <<"z">> >>

C9_Witness ==
    /\ ocr_pc = "done"
    /\ raw_text = ExampleMarkdown
    /\ Len(ocr_ret.latex_expressions) = 2

====
